---- MODULE Spec2Model ----
(***************************************************************************)
(* Model of the apify-client request execution path: the method decorator  *)
(* of the client instance, the resource facades (key-value stores,         *)
(* datasets, request queues, tasks, acts, crawlers), the backoff retrier   *)
(* behind requestPromise and the pagination wrappers.                      *)
(*                                                                         *)
(* One facade call is in flight at a time; when it has settled the next    *)
(* one may start.  setOptions may happen at any moment.                    *)
(***************************************************************************)
EXTENDS Integers, Sequences, FiniteSets, TLC

VARIABLES
    instanceOpts,   \* instance-level options of the ApifyClient (closure variable instanceOpts)
    op,             \* name of the facade method in flight, "none" when idle
    args,           \* the arguments of the call, as type tags; once the call is in flight, those its handlers still read
    mergedOpts,     \* the options object the decorator handed to the method
    payload,        \* body the call carries: [json, length, gzipLength]
    pc,             \* position of the call: "idle", "gzip", "request", "done"
    step,           \* which requestPromise invocation is running: "none", "single", "direct", "negotiate", "upload", "download"
    reqLog,         \* request descriptors handed to requestPromise by the call in flight, in order, each with
                    \* how its promise settled, the attempts made and the status of the settling attempt
    backoff,        \* backoff state of the running requestPromise invocation
    response,       \* the response that settled the running invocation successfully
    callOpts,       \* the options object the caller passed to the call in flight
    outcome,        \* how the call settled
    optsAtStart,    \* history: instance options in force when the call in flight was issued
    callback,       \* whether the caller passed a callback to the call in flight
    cbCalls,        \* the invocations of that callback so far, each [error, result]
    pure,           \* the helper function being applied outside any call: its name, arguments and result
    calls           \* two concurrent calls of one client: the retrier state each of them owns, the statuses
                    \* its attempts ended with and the delay exponents it waited for

vars == <<instanceOpts, op, args, mergedOpts, payload, pc, step, reqLog, backoff, response, callOpts, outcome,
          optsAtStart, callback, cbCalls, calls, pure>>

\* the variables of the single call followed step by step
callVars == <<instanceOpts, op, args, mergedOpts, payload, pc, step, reqLog, backoff, response, callOpts, outcome,
              optsAtStart, callback, cbCalls>>

----------------------------------------------------------------------------
(* Bounds *)

MaxItems == 2          \* longest items array a list response carries
MaxBadArgs == 2        \* how many arguments of one call may be absent or of a wrong type
MaxIdLen == 3          \* longest identifier and longest string body, in characters

----------------------------------------------------------------------------
(* Program constants *)

SIGNED_URL_UPLOAD_MIN_BYTESIZE == 262144
REQUEST_ENDPOINTS_EXP_BACKOFF_MAX_REPEATS == 9
EXP_BACKOFF_MAX_REPEATS == 8
NOT_FOUND_STATUS_CODE == 404
RATE_LIMIT_EXCEEDED_STATUS_CODE == 429

----------------------------------------------------------------------------
(* Values.  An argument is represented by its JavaScript type tag;         *)
(* "ObjectWithId" is an object that has a string `id` property,            *)
(* "EmptyString" is the string ''.                                         *)

Tags == {"undefined", "String", "EmptyString", "Number", "true", "false", "Object", "ObjectWithId", "Array",
         "Buffer"}

TypeOf(v) ==
    CASE v = "ObjectWithId" -> "Object"
      [] v = "EmptyString" -> "String"
      [] v \in {"true", "false"} -> "Boolean"
      [] OTHER -> v

Truthy(v) == v \notin {"undefined", "false", "EmptyString"}

\* v.id : property access; throws on undefined, yields undefined on values without the property
PropId(v) == IF v = "ObjectWithId" THEN "String" ELSE "undefined"

Err(type, param, statusCode, attempts) ==
    [type |-> type, param |-> param, statusCode |-> statusCode, attempts |-> attempts]

NoError == Err("none", "", 0, 0)

\* utils.checkParamOrThrow(value, name, type): the error it throws, NoError when it passes
checkParamOrThrow(value, name, maybe, types) ==
    IF value = "undefined"
    THEN IF maybe THEN NoError ELSE Err("MissingParameter", name, 0, 0)
    ELSE IF TypeOf(value) \in types THEN NoError ELSE Err("InvalidParameterType", name, 0, 0)

\* one checkParamOrThrow line of a facade method
Req(arg, type) == [arg |-> arg, name |-> arg, maybe |-> FALSE, types |-> {type}]
Maybe(arg, type) == [arg |-> arg, name |-> arg, maybe |-> TRUE, types |-> {type}]
ReqAs(arg, name, types) == [arg |-> arg, name |-> name, maybe |-> FALSE, types |-> types]

----------------------------------------------------------------------------
(* Facade methods.  Each descriptor lists, from the method's source:       *)
(*   verb, path     the request it builds                                  *)
(*   nominal        the options it reads, with the tag of a valid value    *)
(*   checks         its checkParamOrThrow lines, in order                  *)
(*   catchNotFound  whether catchNotFoundOrThrow handles its rejection     *)
(*   maxRepeats     expBackOffMaxRepeats of its request, 0 when not set    *)
(*   unwrap         what it does with the response                         *)

Method(verb, path, nominal, checks, catchNotFound, maxRepeats, unwrap) ==
    [verb |-> verb, path |-> path, nominal |-> nominal, checks |-> checks,
     catchNotFound |-> catchNotFound, maxRepeats |-> maxRepeats, unwrap |-> unwrap]

BaseUrlCheck == Req("baseUrl", "String")

PagingNominal == ("token" :> "String") @@ ("limit" :> "Number") @@ ("offset" :> "Number")
                 @@ ("desc" :> "true") @@ ("unnamed" :> "true")

PagingChecks == <<BaseUrlCheck, Req("token", "String"), Maybe("limit", "Number"), Maybe("offset", "Number"),
                  Maybe("desc", "Boolean"), Maybe("unnamed", "Boolean")>>

\* key-value stores
\* variant: the rejection handler of the lookups is attached to the create call too
getOrCreateStore_CatchesNotFound == Method("POST", "/v2/key-value-stores",
    ("token" :> "String") @@ ("storeName" :> "String"),
    <<BaseUrlCheck, Req("token", "String"), Req("storeName", "String")>>,
    TRUE, 0, "pluckData")

\* getOrCreateStore of key-value-stores.js: no parameter checks, the picked options are the JSON
\* body, the promise of requestPromise is returned as it is
keyValueStores_getOrCreateStore == Method("POST", "/v2/key-value-stores",
    ("token" :> "String") @@ ("storeName" :> "String"),
    <<>>,
    FALSE, 0, "identity")

getOrCreateStore == Method("POST", "/v2/key-value-stores",
    ("token" :> "String") @@ ("storeName" :> "String"),
    <<BaseUrlCheck, Req("token", "String"), Req("storeName", "String")>>,
    FALSE, 0, "pluckData")

listStores == Method("GET", "/v2/key-value-stores", PagingNominal, PagingChecks, FALSE, 0, "pluckData")

getStore == Method("GET", "/v2/key-value-stores/{storeId}",
    ("storeId" :> "String"),
    <<BaseUrlCheck, Req("storeId", "String")>>,
    TRUE, 0, "pluckData")

deleteStore == Method("DELETE", "/v2/key-value-stores/{storeId}",
    ("storeId" :> "String"),
    <<BaseUrlCheck, Req("storeId", "String")>>,
    FALSE, 0, "identity")

getRecord == Method("GET", "/v2/key-value-stores/{storeId}/records/{key}",
    ("storeId" :> "String") @@ ("key" :> "String") @@ ("raw" :> "undefined")
        @@ ("useRawBody" :> "undefined") @@ ("url" :> "undefined"),
    <<BaseUrlCheck, Req("storeId", "String"), Req("key", "String"), Maybe("raw", "Boolean"),
      Maybe("useRawBody", "Boolean"), Maybe("url", "Boolean")>>,
    TRUE, 0, "parseResponse")

putRecord == Method("PUT", "/v2/key-value-stores/{storeId}/records/{key}",
    ("storeId" :> "String") @@ ("key" :> "String") @@ ("contentType" :> "String")
        @@ ("useRawBody" :> "undefined") @@ ("body" :> "String"),
    <<BaseUrlCheck, Req("storeId", "String"), Req("key", "String"), Req("contentType", "String"),
      Maybe("useRawBody", "Boolean"), ReqAs("encodedBody", "body", {"Buffer", "String"})>>,
    FALSE, 0, "identity")

deleteRecord == Method("DELETE", "/v2/key-value-stores/{storeId}/records/{key}",
    ("storeId" :> "String") @@ ("key" :> "String"),
    <<BaseUrlCheck, Req("storeId", "String"), Req("key", "String")>>,
    FALSE, 0, "identity")

listKeys == Method("GET", "/v2/key-value-stores/{storeId}/keys",
    ("storeId" :> "String") @@ ("exclusiveStartKey" :> "String") @@ ("limit" :> "Number"),
    <<BaseUrlCheck, Req("storeId", "String"), Maybe("exclusiveStartKey", "String"), Maybe("limit", "Number")>>,
    FALSE, 0, "pluckData")

\* datasets
listDatasets == Method("GET", "/v2/datasets", PagingNominal, PagingChecks, FALSE, 0, "pluckData")

getDataset == Method("GET", "/v2/datasets/{datasetId}",
    ("datasetId" :> "String"),
    <<BaseUrlCheck, Req("datasetId", "String")>>,
    TRUE, 0, "pluckData")

deleteDataset == Method("DELETE", "/v2/datasets/{datasetId}",
    ("datasetId" :> "String"),
    <<BaseUrlCheck, Req("datasetId", "String")>>,
    FALSE, 0, "identity")

putItems == Method("POST", "/v2/datasets/{datasetId}/items",
    ("datasetId" :> "String") @@ ("data" :> "Array"),
    <<BaseUrlCheck, Req("datasetId", "String"), ReqAs("data", "data", {"Object", "Array"})>>,
    FALSE, 0, "identity")

\* (a call with valid options; the validation of the options object is exactShape below)
listItems == Method("GET", "/v2/datasets/{id}/items",
    ("limit" :> "Number") @@ ("offset" :> "Number"),
    <<>>,
    FALSE, 0, "_createPaginationList")

\* request queues
getOrCreateQueue == Method("POST", "/v2/request-queues",
    ("token" :> "String") @@ ("queueName" :> "String"),
    <<BaseUrlCheck, Req("token", "String"), Req("queueName", "String")>>,
    FALSE, 0, "pluckData")

listQueues == Method("GET", "/v2/request-queues", PagingNominal, PagingChecks, FALSE, 0, "pluckData")

getQueue == Method("GET", "/v2/request-queues/{queueId}",
    ("queueId" :> "String") @@ ("token" :> "String"),
    <<BaseUrlCheck, Req("queueId", "String"), Maybe("token", "String")>>,
    TRUE, 0, "pluckData")

deleteQueue == Method("DELETE", "/v2/request-queues/{queueId}",
    ("queueId" :> "String") @@ ("token" :> "String"),
    <<BaseUrlCheck, Req("queueId", "String"), Req("token", "String")>>,
    FALSE, 0, "identity")

addRequest == Method("POST", "/v2/request-queues/{queueId}/requests",
    ("queueId" :> "String") @@ ("request" :> "Object") @@ ("forefront" :> "undefined") @@ ("token" :> "String"),
    <<BaseUrlCheck, Req("queueId", "String"), Req("request", "Object"), Req("forefront", "Boolean"),
      Req("token", "String")>>,
    FALSE, REQUEST_ENDPOINTS_EXP_BACKOFF_MAX_REPEATS, "pluckData")

getRequest == Method("GET", "/v2/request-queues/{queueId}/requests/{requestId}",
    ("queueId" :> "String") @@ ("requestId" :> "String") @@ ("token" :> "String"),
    <<BaseUrlCheck, Req("queueId", "String"), Req("requestId", "String"), Maybe("token", "String")>>,
    TRUE, REQUEST_ENDPOINTS_EXP_BACKOFF_MAX_REPEATS, "pluckData")

deleteRequest == Method("DELETE", "/v2/request-queues/{queueId}/requests/{requestId}",
    ("queueId" :> "String") @@ ("requestId" :> "String") @@ ("token" :> "String"),
    <<BaseUrlCheck, Req("queueId", "String"), Req("requestId", "String"), Req("token", "String")>>,
    FALSE, REQUEST_ENDPOINTS_EXP_BACKOFF_MAX_REPEATS, "identity")

updateRequest == Method("PUT", "/v2/request-queues/{queueId}/requests/{requestId}",
    ("queueId" :> "String") @@ ("requestId" :> "undefined") @@ ("request" :> "ObjectWithId")
        @@ ("forefront" :> "undefined") @@ ("token" :> "String"),
    <<Req("request", "Object"), BaseUrlCheck, Req("queueId", "String"),
      ReqAs("safeRequestId", "requestId", {"String"}), Req("forefront", "Boolean"), Req("token", "String")>>,
    FALSE, REQUEST_ENDPOINTS_EXP_BACKOFF_MAX_REPEATS, "pluckData")

\* variant: the queue head is fetched without expBackOffMaxRepeats
getHead_DefaultCeiling == Method("GET", "/v2/request-queues/{queueId}/head",
    ("queueId" :> "String") @@ ("limit" :> "Number") @@ ("token" :> "String"),
    <<BaseUrlCheck, Req("queueId", "String"), Req("limit", "Number"), Maybe("token", "String")>>,
    FALSE, 0, "pluckData")

getHead == Method("GET", "/v2/request-queues/{queueId}/head",
    ("queueId" :> "String") @@ ("limit" :> "Number") @@ ("token" :> "String"),
    <<BaseUrlCheck, Req("queueId", "String"), Req("limit", "Number"), Maybe("token", "String")>>,
    FALSE, REQUEST_ENDPOINTS_EXP_BACKOFF_MAX_REPEATS, "pluckData")

\* tasks
listTasks == Method("GET", "/v2/actor-tasks",
    ("token" :> "String") @@ ("limit" :> "Number") @@ ("offset" :> "Number") @@ ("desc" :> "true"),
    <<BaseUrlCheck, Req("token", "String"), Maybe("limit", "Number"), Maybe("offset", "Number"),
      Maybe("desc", "Boolean")>>,
    FALSE, 0, "pluckData")

getTask == Method("GET", "/v2/actor-tasks/{taskId}",
    ("token" :> "String") @@ ("taskId" :> "String"),
    <<BaseUrlCheck, Req("token", "String"), Req("taskId", "String")>>,
    TRUE, 0, "pluckData")

deleteTask == Method("DELETE", "/v2/actor-tasks/{taskId}",
    ("token" :> "String") @@ ("taskId" :> "String"),
    <<BaseUrlCheck, Req("token", "String"), Req("taskId", "String")>>,
    FALSE, 0, "identity")

runTask == Method("POST", "/v2/actor-tasks/{taskId}/runs",
    ("token" :> "String") @@ ("taskId" :> "String") @@ ("input" :> "Object") @@ ("body" :> "undefined")
        @@ ("contentType" :> "undefined"),
    <<BaseUrlCheck, Req("token", "String"), Req("taskId", "String"), Maybe("waitForFinish", "Number"),
      Maybe("timeout", "Number"), Maybe("memory", "Number"), Maybe("build", "String"),
      Maybe("webhooks", "Array"), Maybe("input", "Object")>>,
    FALSE, 0, "pluckData")

\* acts
updateAct == Method("PUT", "/v2/acts/{actId}",
    ("token" :> "String") @@ ("actId" :> "String") @@ ("act" :> "Object"),
    <<BaseUrlCheck, Req("token", "String"), ReqAs("safeActId", "actId", {"String"}), Req("act", "Object")>>,
    FALSE, 0, "pluckData")

deleteAct == Method("DELETE", "/v2/acts/{actId}",
    ("token" :> "String") @@ ("actId" :> "String"),
    <<BaseUrlCheck, Req("actId", "String")>>,
    FALSE, 0, "identity")

getAct == Method("GET", "/v2/acts/{actId}",
    ("token" :> "String") @@ ("actId" :> "String"),
    <<BaseUrlCheck, Req("actId", "String")>>,
    TRUE, 0, "pluckData")

getRun == Method("GET", "/v2/acts/{actId}/runs/{runId}",
    ("token" :> "String") @@ ("actId" :> "String") @@ ("runId" :> "String"),
    <<BaseUrlCheck, Req("actId", "String"), Req("runId", "String")>>,
    TRUE, 0, "pluckData")

getBuild == Method("GET", "/v2/acts/{actId}/builds/{buildId}",
    ("token" :> "String") @@ ("actId" :> "String") @@ ("buildId" :> "String"),
    <<BaseUrlCheck, Req("actId", "String"), Req("buildId", "String")>>,
    TRUE, 0, "pluckData")

\* crawlers (legacy /v1)
listCrawlers == Method("GET", "/v1/{userId}/crawlers",
    ("userId" :> "String") @@ ("token" :> "String"),
    <<Req("userId", "String"), Req("token", "String")>>,
    FALSE, 0, "wrapArray")

getCrawlerSettings == Method("GET", "/v1/{userId}/crawlers/{crawlerId}",
    ("userId" :> "String") @@ ("token" :> "String") @@ ("crawlerId" :> "String"),
    <<Req("userId", "String"), Req("token", "String"), Req("crawlerId", "String")>>,
    TRUE, 0, "identity")

deleteCrawler == Method("DELETE", "/v1/{userId}/crawlers/{crawlerId}",
    ("userId" :> "String") @@ ("token" :> "String") @@ ("crawlerId" :> "String"),
    <<Req("userId", "String"), Req("token", "String"), Req("crawlerId", "String")>>,
    FALSE, 0, "identity")

getListOfExecutions == Method("GET", "/v1/{userId}/crawlers/{crawlerId}/execs",
    ("userId" :> "String") @@ ("token" :> "String") @@ ("crawlerId" :> "String"),
    <<Req("userId", "String"), Req("crawlerId", "String"), Req("token", "String")>>,
    FALSE, 0, "wrapArray")

getExecutionDetails == Method("GET", "/v1/execs/{executionId}",
    ("executionId" :> "String"),
    <<Req("executionId", "String")>>,
    TRUE, 0, "identity")

getExecutionResults == Method("GET", "/v1/execs/{executionId}/results",
    ("executionId" :> "String"),
    <<Req("executionId", "String")>>,
    FALSE, 0, "wrapArray")

getLastExecutionResults == Method("GET", "/v1/{userId}/crawlers/{crawlerId}/lastExec/results",
    ("userId" :> "String") @@ ("token" :> "String") @@ ("crawlerId" :> "String"),
    <<Req("userId", "String"), Req("token", "String"), Req("crawlerId", "String")>>,
    FALSE, 0, "wrapArray")

Methods ==
    [keyValueStores_getOrCreateStore |-> keyValueStores_getOrCreateStore,
     getOrCreateStore |-> getOrCreateStore, listStores |-> listStores, getStore |-> getStore,
     deleteStore |-> deleteStore, getRecord |-> getRecord, putRecord |-> putRecord,
     deleteRecord |-> deleteRecord, listKeys |-> listKeys,
     listDatasets |-> listDatasets, getDataset |-> getDataset, deleteDataset |-> deleteDataset,
     putItems |-> putItems, listItems |-> listItems,
     getOrCreateQueue |-> getOrCreateQueue, listQueues |-> listQueues, getQueue |-> getQueue,
     deleteQueue |-> deleteQueue, addRequest |-> addRequest, getRequest |-> getRequest,
     deleteRequest |-> deleteRequest, updateRequest |-> updateRequest, getHead |-> getHead,
     listTasks |-> listTasks, getTask |-> getTask, deleteTask |-> deleteTask, runTask |-> runTask,
     updateAct |-> updateAct, deleteAct |-> deleteAct, getAct |-> getAct, getRun |-> getRun,
     getBuild |-> getBuild,
     listCrawlers |-> listCrawlers, getCrawlerSettings |-> getCrawlerSettings,
     deleteCrawler |-> deleteCrawler, getListOfExecutions |-> getListOfExecutions,
     getExecutionDetails |-> getExecutionDetails, getExecutionResults |-> getExecutionResults,
     getLastExecutionResults |-> getLastExecutionResults]

Ops == DOMAIN Methods

----------------------------------------------------------------------------
(* Options *)

Hosts == {"api.apifier.com", "my-very-new-host"}

\* getDefaultOptions(): protocol, host and basePath; no port
getDefaultOptions == [protocol |-> "https", host |-> "api.apifier.com", port |-> "undefined", basePath |-> ""]

\* option objects: what the constructor may get, what setOptions may get, what a call may get
ConstructorOptions == { <<>> } \cup { [k \in {"host"} |-> h] : h \in Hosts }

SetOptionObjects == { [k \in {"host"} |-> h] : h \in Hosts }

CallOptionObjects == { <<>>, [k \in {"port"} |-> "80"], [k \in {"host"} |-> "call-host"] }

\* variant: a key already set is kept, Object.assign({}, over, base)
Assign_FirstWins(base, over) == base

\* Object.assign({}, base, over) restricted to the keys of base
Assign(base, over) ==
    [k \in DOMAIN base |-> IF k \in DOMAIN over THEN over[k] ELSE base[k]]

\* mergedOpts.baseUrl = protocol + '://' + host + (port ? ':' + port : '') + basePath
BaseUrl(o) ==
    <<o.protocol, "://", o.host>> \o (IF o.port # "undefined" THEN <<":", o.port>> ELSE <<>>) \o <<o.basePath>>

----------------------------------------------------------------------------
(* Synchronous part of a facade method: argument evaluation and checks *)

\* const safeActId = !actId && act.id ? act.id : actId;
updateAct_safeActId(a) ==
    IF ~Truthy(a["actId"]) /\ Truthy(PropId(a["act"])) THEN PropId(a["act"]) ELSE a["actId"]

\* const safeRequestId = requestId || request.id;
updateRequest_safeRequestId(a) ==
    IF Truthy(a["requestId"]) THEN a["requestId"] ELSE PropId(a["request"])

\* utils.encodeBody(body, contentType): JSON.stringify for JSON, the body itself otherwise
encodeBody(body, json) ==
    IF json THEN (IF body = "undefined" THEN "undefined" ELSE "String") ELSE body

\* the value a checkParamOrThrow line looks at
ArgVal(o, a, p, arg) ==
    CASE arg = "baseUrl" -> "String"
      [] arg = "safeActId" -> updateAct_safeActId(a)
      [] arg = "safeRequestId" -> updateRequest_safeRequestId(a)
      [] arg = "forefront" -> IF a["forefront"] = "undefined" THEN "false" ELSE a["forefront"]
      [] arg = "contentType" /\ o = "putRecord" ->
            IF a["contentType"] = "undefined" THEN "String" ELSE a["contentType"]
      [] arg = "encodedBody" -> IF Truthy(a["useRawBody"]) THEN a["body"] ELSE encodeBody(a["body"], p.json)
      [] OTHER -> IF arg \in DOMAIN a THEN a[arg] ELSE "undefined"

RECURSIVE FirstError(_, _, _, _, _)
FirstError(o, a, p, checks, i) ==
    IF i > Len(checks) THEN NoError
    ELSE LET c == checks[i]
             e == checkParamOrThrow(ArgVal(o, a, p, c.arg), c.name, c.maybe, c.types)
         IN IF e # NoError THEN e ELSE FirstError(o, a, p, checks, i + 1)

\* what a method throws before it reaches its first checkParamOrThrow line
PreThrow(o, a) ==
    IF o = "updateAct" /\ ~Truthy(a["actId"]) /\ a["act"] = "undefined"
    THEN Err("TypeError", "", 0, 0)
    ELSE NoError

\* new Error('You cannot use deprecated parameter "body" along with its replacement "input"!')
ConflictError == Err("Error", "body, input", 0, 0)

\* variant: body and input given together are both accepted, the input is sent
runTask_bodyBranch_NoConflict(a) ==
    IF Truthy(a["body"]) /\ ~Truthy(a["input"])
    THEN FirstError("runTask", a, <<>>, <<Maybe("contentType", "String"), Req("body", "String")>>, 1)
    ELSE NoError

\* runTask, `if (body) { ... }`: what the backwards-compatibility branch throws
runTask_bodyBranch(a) ==
    IF Truthy(a["body"])
    THEN IF Truthy(a["input"])
         THEN ConflictError
         ELSE FirstError("runTask", a, <<>>, <<Maybe("contentType", "String"), Req("body", "String")>>, 1)
    ELSE NoError

\* what a method throws after its leading checkParamOrThrow lines have passed
PostThrow(o, a) ==
    IF o = "runTask" THEN runTask_bodyBranch(a) ELSE NoError

\* the error a method throws synchronously, NoError when it goes on to build its request
SyncThrow(o, a, p) ==
    IF PreThrow(o, a) # NoError THEN PreThrow(o, a)
    ELSE IF FirstError(o, a, p, Methods[o].checks, 1) # NoError
    THEN FirstError(o, a, p, Methods[o].checks, 1)
    ELSE PostThrow(o, a)

\* other values tried in place of a valid one
Alternatives(v) ==
    CASE v = "String" -> {"undefined", "Number"}
      [] v = "Number" -> {"undefined", "String"}
      [] v = "true" -> {"undefined", "false", "String"}
      [] v = "undefined" -> {"true", "String"}
      [] v = "Object" -> {"undefined", "ObjectWithId", "String"}
      [] v = "ObjectWithId" -> {"undefined", "Object", "String"}
      [] OTHER -> {"undefined", "Object", "String"}

\* other values tried for option k of method o
AlternativesOf(o, k) ==
    IF o = "runTask" /\ k = "body"
    THEN {"String", "EmptyString", "Number"}
    ELSE Alternatives(Methods[o].nominal[k])

\* the argument objects tried for a method: the valid call with at most MaxBadArgs options changed
ArgChoices(o) ==
    LET nominal == Methods[o].nominal
        keys == DOMAIN nominal
    IN UNION { { [k \in keys |-> IF k \in S THEN d[k] ELSE nominal[k]] :
                   d \in { f \in [S -> Tags] : \A k \in S : f[k] \in AlternativesOf(o, k) } } :
               S \in { T \in SUBSET keys : Cardinality(T) <= MaxBadArgs } }

----------------------------------------------------------------------------
(* Payloads, requests, responses *)

\* a body is known by whether its content type is JSON, by the length of its
\* encoded form and by the length of the gzipped encoded form
Payloads ==
    { [json |-> j, length |-> l[1], gzipLength |-> l[2]] :
        j \in BOOLEAN, l \in { <<100, 80>>, <<307200, 262143>>, <<307200, 262144>> } }

NoPayload == [json |-> FALSE, length |-> 0, gzipLength |-> 0]

CarriesPayload(o) == o \in {"putRecord", "putItems"}

\* the bodies tried for a method: putItems always sends JSON.stringify(data)
PayloadChoices(o) ==
    CASE o = "putRecord" -> Payloads
      [] o = "putItems" -> { p \in Payloads : p.json }
      [] OTHER -> {NoPayload}

\* utils.gzipPromise(Promise, buffer): the gzipped buffer
gzipPromise(p) == [encoding |-> "gzip", length |-> p.gzipLength]

NoBody == [encoding |-> "none", length |-> 0]

\* a request descriptor handed to requestPromise
Request(kind, target, base, path, verb, body, headers, maxRepeats) ==
    [kind |-> kind, target |-> target, base |-> base, path |-> path, verb |-> verb,
     body |-> body, headers |-> headers, maxRepeats |-> maxRepeats, token |-> "none"]

\* statuses an attempt may end with; negative numbers are transport errors
ECONNRESET == -1
ETIMEDOUT == -2
Statuses == {200, 400, 404, 429, 500, 502, 503, 504, ECONNRESET, ETIMEDOUT}

\* JavaScript values of the pagination fields: a header arrives as a string
Str(n) == [type |-> "string", n |-> n]
Num(n) == [type |-> "number", n |-> n]
Number(v) == [type |-> "number", n |-> v.n]

RECURSIVE ItemsOfLength(_)
ItemsOfLength(n) == IF n = 0 THEN <<>> ELSE Append(ItemsOfLength(n - 1), n)

IsListOp(o) == Methods[o].unwrap \in {"wrapArray", "_createPaginationList"}

NoResponse == [status |-> 0, items |-> <<>>, countHeader |-> Str(0)]

\* responses the server may give to a request of method o
Responses(o) ==
    IF IsListOp(o)
    THEN { [status |-> 200, items |-> ItemsOfLength(n), countHeader |-> Str(h)] :
              n \in 0..MaxItems, h \in 0..MaxItems }
         \cup { [status |-> st, items |-> <<>>, countHeader |-> Str(0)] : st \in Statuses \ {200} }
    ELSE { [status |-> st, items |-> <<>>, countHeader |-> Str(0)] : st \in Statuses }

\* results
Value(tag, items, count) == [tag |-> tag, items |-> items, count |-> count]
Null == Value("null", <<>>, Num(0))
Data == Value("data", <<>>, Num(0))

\* DatasetClient._createPaginationList(response)
createPaginationList(r) == Value("list", r.items, Num(Len(r.items)))

\* crawlers wrapArray(response)
wrapArray(r) == Value("list", r.items, r.countHeader)

Unwrap(o, r) ==
    CASE Methods[o].unwrap = "_createPaginationList" -> createPaginationList(r)
      [] Methods[o].unwrap = "wrapArray" -> wrapArray(r)
      [] OTHER -> Data

----------------------------------------------------------------------------
(* Backoff retrier behind requestPromise *)

\* variant: every 4xx answer is retried like a 429
Retryable_Every4xx(st) == (st >= 400 /\ st < 600) \/ st < 0

Retryable(st) == st \in {RATE_LIMIT_EXCEEDED_STATUS_CODE, 500, 502, 503, 504} \/ st < 0

IsSuccess(st) == st >= 200 /\ st < 300

TerminalStates == {"Success", "Failed", "Exhausted"}

IdleBackoff == [state |-> "Idle", attempt |-> 0, max |-> 0, last |-> 0, error |-> NoError]

\* variant: the ceiling a request asks for is ignored
Dispatch_DefaultCeiling(maxRepeats) ==
    [state |-> "Attempting", attempt |-> 0, max |-> EXP_BACKOFF_MAX_REPEATS, last |-> 0, error |-> NoError]

\* a call is dispatched: Idle -> Attempting, attempt count 0, ceiling from the request or the default
Dispatch(maxRepeats) ==
    [state |-> "Attempting", attempt |-> 0,
     max |-> IF maxRepeats > 0 THEN maxRepeats ELSE EXP_BACKOFF_MAX_REPEATS,
     last |-> 0, error |-> NoError]

\* variant: a success that follows failed attempts is reported with the failure count as an error
AttemptResult_SurfacesRetries(b, st) ==
    LET n == b.attempt + 1 IN
    IF IsSuccess(st)
    THEN IF n > 1
         THEN [b EXCEPT !.state = "Failed", !.attempt = n, !.last = st,
                        !.error = Err("RequestFailedError", "", st, n)]
         ELSE [b EXCEPT !.state = "Success", !.attempt = n, !.last = st]
    ELSE IF Retryable(st)
    THEN IF n >= b.max
         THEN [b EXCEPT !.state = "Exhausted", !.attempt = n, !.last = st,
                        !.error = Err("RequestFailedError", "", st, n)]
         ELSE [b EXCEPT !.state = "Waiting", !.attempt = n, !.last = st]
    ELSE [b EXCEPT !.state = "Failed", !.attempt = n, !.last = st,
                   !.error = Err("ApifyError", "", st, n)]

\* variant: a retryable failure is always followed by another wait, whatever the ceiling
AttemptResult_NoCeiling(b, st) ==
    LET n == b.attempt + 1 IN
    IF IsSuccess(st)
    THEN [b EXCEPT !.state = "Success", !.attempt = n, !.last = st]
    ELSE IF Retryable(st)
    THEN [b EXCEPT !.state = "Waiting", !.attempt = n, !.last = st]
    ELSE [b EXCEPT !.state = "Failed", !.attempt = n, !.last = st,
                   !.error = Err("ApifyError", "", st, n)]

\* the retrier's reaction to the end of one attempt with status st
AttemptResult(b, st) ==
    LET n == b.attempt + 1 IN
    IF IsSuccess(st)
    THEN [b EXCEPT !.state = "Success", !.attempt = n, !.last = st]
    ELSE IF Retryable(st)
    THEN IF n >= b.max
         THEN [b EXCEPT !.state = "Exhausted", !.attempt = n, !.last = st,
                        !.error = Err("RequestFailedError", "", st, n)]
         ELSE [b EXCEPT !.state = "Waiting", !.attempt = n, !.last = st]
    ELSE [b EXCEPT !.state = "Failed", !.attempt = n, !.last = st,
                   !.error = Err("ApifyError", "", st, n)]

\* the two calls a caller has in flight at once on one client
Callers == {1, 2}

\* the answers the concurrent calls get: a success, a client error, a retryable server error
ConcStatuses == {200, 400, 503}

\* the ceilings the concurrent calls ask for: none (the default) or the request endpoints' one
ConcCeilings == {0, REQUEST_ENDPOINTS_EXP_BACKOFF_MAX_REPEATS}

\* no helper function is being applied
NoEval == [fn |-> "none", in |-> <<>>, out |-> <<>>]

IdleCall == [b |-> IdleBackoff, maxRepeats |-> 0, hist |-> <<>>, delays |-> <<>>]

\* variant: one Backoff State for the client, the one of the first call
OwnBackoff_Shared(c, i) == c[1].b

\* the Backoff State an attempt of call i reads and advances: the call's own
OwnBackoff(c, i) == c[i].b

\* call i alone: the retrier fed the statuses hist, one per attempt, from its dispatch on
RECURSIVE RunAlone(_, _, _)
RunAlone(b, delays, hist) ==
    IF hist = <<>> THEN [b |-> b, delays |-> delays]
    ELSE LET n == AttemptResult(b, Head(hist)) IN
         IF n.state = "Waiting"
         THEN RunAlone([n EXCEPT !.state = "Attempting", !.last = 0], Append(delays, n.attempt), Tail(hist))
         ELSE RunAlone(n, delays, Tail(hist))

----------------------------------------------------------------------------
(* Settled calls *)

NoOutcome == [kind |-> "none", error |-> NoError, value |-> Null]
Thrown(e) == [kind |-> "thrown", error |-> e, value |-> Null]
Resolved(v) == [kind |-> "resolved", error |-> NoError, value |-> v]
Rejected(e) == [kind |-> "rejected", error |-> e, value |-> Null]

\* the value of a callback argument that is not passed
Undefined == Value("undefined", <<>>, Num(0))

\* variant: the callback gets the error and a result in one call
CallbackCalls_ErrorAndResult(o) ==
    <<[error |-> o.error, result |-> o.value]>>

\* promise.then(result => callback(null, result), error => callback(error)):
\* the invocations of the callback when the promise settles as o
CallbackCalls(o) ==
    IF o.kind = "resolved"
    THEN <<[error |-> NoError, result |-> o.value]>>
    ELSE <<[error |-> o.error, result |-> Undefined]>>

\* utils.catchNotFoundOrThrow(err): null for a 404, the error again otherwise
catchNotFoundOrThrow(e) ==
    IF e.statusCode = NOT_FOUND_STATUS_CODE THEN Resolved(Null) ELSE Rejected(e)

----------------------------------------------------------------------------
(* Requests the facade methods build *)

JsonBody == [encoding |-> "json", length |-> 0]

SendsEntity(o) == o \in {"addRequest", "updateRequest", "updateAct", "keyValueStores_getOrCreateStore"}

CONTENT_TYPE_JSON == "application/json"

\* const { ..., contentType = 'text/plain' } = options, for the payload of the call in flight
putRecord_contentType == IF payload.json THEN CONTENT_TYPE_JSON ELSE "text/plain"

\* headers: { 'Content-Type': contentType, 'Content-Encoding': 'gzip' }
GzipHeaders(contentType) == {<<"Content-Type", contentType>>, <<"Content-Encoding", "gzip">>}

\* the single request of a one-request method
SingleRequest(o, m) ==
    Request("single", "api", m.baseUrl, <<Methods[o].path>>, Methods[o].verb,
            IF SendsEntity(o) THEN JsonBody ELSE NoBody, {}, Methods[o].maxRepeats)

\* getRecord, signed-URL path: the request for the download URL and the download itself
getRecord_negotiate(m) ==
    Request("negotiate", "api", m.baseUrl, <<getRecord.path, "/direct-download-url">>, "GET", NoBody, {}, 0)

getRecord_download ==
    Request("download", "signedUrl", <<"signedUrl">>, <<>>, "GET", NoBody, {}, 0)

\* putRecord: requestOpts, the request for the upload URL, and s3RequestOpts
putRecord_requestOpts(m, gzipedBody) ==
    Request("direct", "api", m.baseUrl, <<putRecord.path>>, "PUT", gzipedBody,
            GzipHeaders(putRecord_contentType), 0)

putRecord_negotiate(m) ==
    Request("negotiate", "api", m.baseUrl, <<putRecord.path, "/direct-upload-url">>, "GET", NoBody,
            {<<"Content-Type", putRecord_contentType>>}, 0)

\* variant: the upload to the signed URL is built afresh, with the Content-Type only
putRecord_s3RequestOpts_NoEncoding(m, gzipedBody) ==
    Request("upload", "signedUrl", <<"signedUrl">>, <<>>, "PUT", gzipedBody,
            {<<"Content-Type", putRecord_contentType>>}, 0)

\* s3RequestOpts = Object.assign({}, requestOpts, { url: signedUrl })
putRecord_s3RequestOpts(m, gzipedBody) ==
    [putRecord_requestOpts(m, gzipedBody) EXCEPT !.kind = "upload", !.target = "signedUrl",
                                                 !.base = <<"signedUrl">>, !.path = <<>>]

\* putItems: requestOpts
putItems_requestOpts(m, gzipedBody) ==
    Request("direct", "api", m.baseUrl, <<putItems.path>>, "POST", gzipedBody,
            GzipHeaders("application/json; charset=utf-8"), 0)

RawBody == [encoding |-> "raw", length |-> 0]

\* runTask: opts, with the legacy body and its Content-Type or with the JSON input
runTask_opts(a, m) ==
    Request("single", "api", m.baseUrl, <<runTask.path>>, "POST",
            CASE Truthy(a["input"]) -> JsonBody
              [] Truthy(a["body"]) -> RawBody
              [] OTHER -> NoBody,
            IF Truthy(a["body"]) /\ Truthy(a["contentType"]) THEN {<<"Content-Type", "contentType">>} ELSE {},
            0)

\* the methods that put options.token into the query string of their request
TokenInQuery ==
    {"getOrCreateStore", "listStores", "listDatasets",
     "getOrCreateQueue", "listQueues", "getQueue", "deleteQueue", "addRequest", "getRequest",
     "deleteRequest", "updateRequest", "getHead",
     "listTasks", "getTask", "deleteTask", "runTask",
     "updateAct", "deleteAct", "getAct", "getRun", "getBuild",
     "listCrawlers", "getCrawlerSettings", "deleteCrawler", "getListOfExecutions",
     "getLastExecutionResults"}

\* the methods that put options.token into the JSON body of their request
TokenInBody == {"keyValueStores_getOrCreateStore"}

\* where the request of method o carries the token of the call, "none" when the call has no
\* token or the method does not read it
TokenPlace(o, a) ==
    IF "token" \in DOMAIN a /\ Truthy(a["token"])
    THEN CASE o \in TokenInQuery -> "qs"
           [] o \in TokenInBody -> "body"
           [] OTHER -> "none"
    ELSE "none"

\* the first request of a method that does not gzip first
FirstRequest(o, a, m) ==
    LET r == CASE o = "getRecord" /\ Truthy(a["url"]) -> getRecord_negotiate(m)
               [] o = "runTask" -> runTask_opts(a, m)
               [] OTHER -> SingleRequest(o, m)
    IN [r EXCEPT !.token = TokenPlace(o, a)]

\* variant: a body of exactly the threshold size is still sent directly
RequestAfterGzip_AboveOnly(o, m, gzipedBody) ==
    IF o = "putRecord"
    THEN IF gzipedBody.length <= SIGNED_URL_UPLOAD_MIN_BYTESIZE
         THEN putRecord_requestOpts(m, gzipedBody)
         ELSE putRecord_negotiate(m)
    ELSE putItems_requestOpts(m, gzipedBody)

\* the request a gzipping method sends once the body is gzipped
RequestAfterGzip(o, m, gzipedBody) ==
    IF o = "putRecord"
    THEN IF gzipedBody.length < SIGNED_URL_UPLOAD_MIN_BYTESIZE
         THEN putRecord_requestOpts(m, gzipedBody)
         ELSE putRecord_negotiate(m)
    ELSE putItems_requestOpts(m, gzipedBody)

LogEntry(r) == [req |-> r, settled |-> "pending", attempts |-> 0, status |-> 0]

----------------------------------------------------------------------------
(* State machine *)

\* the arguments the pending handlers of a method still read once its synchronous part is over
LiveArgs(o, a) ==
    CASE o = "getRecord" -> [k \in {"url", "raw", "useRawBody"} |-> a[k]]
      [] o = "runTask" -> [k \in {"body", "input"} |-> a[k]]
      [] OTHER -> <<>>

\* variant: the merge writes into the instance options, Object.assign(instanceOpts, callOpts)
methodDecorator_instanceOpts_InPlace(inst, co) == Assign(inst, co)

\* the instance options after Object.assign({}, instanceOpts, callOpts): the target of
\* the merge is a fresh object, instanceOpts is only read
methodDecorator_instanceOpts(inst, co) == inst

\* mergedOpts = Object.assign({}, instanceOpts, callOpts) with baseUrl added
MergedOpts(inst, co) ==
    LET m == Assign(inst, co) IN [opts |-> m, baseUrl |-> BaseUrl(m)]

Init ==
    /\ instanceOpts \in { Assign(getDefaultOptions, o) : o \in ConstructorOptions }
    /\ op = "none"
    /\ args = <<>>
    /\ callOpts = <<>>
    /\ mergedOpts = MergedOpts(getDefaultOptions, <<>>)
    /\ payload = NoPayload
    /\ pc = "idle"
    /\ step = "none"
    /\ reqLog = <<>>
    /\ backoff = IdleBackoff
    /\ response = NoResponse
    /\ outcome = NoOutcome
    /\ optsAtStart = getDefaultOptions
    /\ callback = FALSE
    /\ cbCalls = <<>>
    /\ calls = [i \in Callers |-> IdleCall]
    /\ pure = NoEval

\* requestPromise(r): the request is logged and its first attempt starts
Send(r) ==
    /\ reqLog' = Append(reqLog, LogEntry(r))
    /\ backoff' = Dispatch(r.maxRepeats)
    /\ step' = r.kind
    /\ response' = NoResponse
    /\ pc' = "request"

\* the promise of the call settles; with a callback, the handlers the decorator attached call it
Finish(o) ==
    /\ outcome' = o
    /\ pc' = "done"
    /\ step' = "none"
    /\ backoff' = IdleBackoff
    /\ cbCalls' = IF callback THEN CallbackCalls(o) ELSE <<>>
    /\ UNCHANGED <<reqLog, response>>

\* methodDecorator: merge the options, add baseUrl, run the method up to its first asynchronous step
StartCall(o, a, co, p, cb) ==
    /\ pc = "idle"
    /\ callback' = cb
    /\ cbCalls' = <<>>
    /\ op' = o
    /\ args' = IF SyncThrow(o, a, p) # NoError THEN a ELSE LiveArgs(o, a)
    /\ callOpts' = co
    /\ payload' = p
    /\ optsAtStart' = instanceOpts
    /\ mergedOpts' = MergedOpts(instanceOpts, co)
    /\ instanceOpts' = methodDecorator_instanceOpts(instanceOpts, co)
    /\ UNCHANGED <<calls, pure>>
    /\ IF SyncThrow(o, a, p) # NoError
       THEN /\ outcome' = Thrown(SyncThrow(o, a, p))
            /\ pc' = "done"
            /\ UNCHANGED <<step, reqLog, backoff, response>>
       ELSE /\ outcome' = NoOutcome
            /\ IF CarriesPayload(o)
               THEN /\ pc' = "gzip"
                    /\ UNCHANGED <<step, reqLog, backoff, response>>
               ELSE Send(FirstRequest(o, a, mergedOpts'))

\* variant: the request is built from the instance options in force when gzip has finished
GzipDone_ReadsInstanceOpts ==
    /\ pc = "gzip"
    /\ Send(RequestAfterGzip(op, MergedOpts(instanceOpts, callOpts), gzipPromise(payload)))
    /\ UNCHANGED <<instanceOpts, op, args, callOpts, mergedOpts, payload, outcome, optsAtStart, callback, cbCalls,
                   calls, pure>>

\* gzipPromise resolves: putRecord / putItems send the gzipped body or ask for an upload URL
GzipDone ==
    /\ pc = "gzip"
    /\ Send(RequestAfterGzip(op, mergedOpts, gzipPromise(payload)))
    /\ UNCHANGED <<instanceOpts, op, args, callOpts, mergedOpts, payload, outcome, optsAtStart, callback, cbCalls,
                   calls, pure>>

\* one attempt of the running request ends with response r
Attempt(r) ==
    /\ pc = "request"
    /\ backoff.state = "Attempting"
    /\ backoff' = AttemptResult(backoff, r.status)
    /\ response' = IF IsSuccess(r.status) THEN r ELSE NoResponse
    /\ reqLog' = [reqLog EXCEPT ![Len(reqLog)] =
                    [@ EXCEPT !.attempts = @ + 1,
                              !.status = IF backoff'.state \in TerminalStates THEN r.status ELSE 0,
                              !.settled = CASE backoff'.state = "Success" -> "resolved"
                                            [] backoff'.state \in {"Failed", "Exhausted"} -> "rejected"
                                            [] OTHER -> "pending"]]
    /\ UNCHANGED <<instanceOpts, op, args, callOpts, mergedOpts, payload, pc, step, outcome, optsAtStart,
                   callback, cbCalls, calls, pure>>

\* the backoff delay elapses: Waiting -> Attempting, the failed attempt's error is dropped
BackoffElapsed ==
    /\ pc = "request"
    /\ backoff.state = "Waiting"
    /\ backoff' = [backoff EXCEPT !.state = "Attempting", !.last = 0]
    /\ UNCHANGED <<instanceOpts, op, args, callOpts, mergedOpts, payload, pc, step, reqLog, response,
                   outcome, optsAtStart, callback, cbCalls, calls, pure>>

\* what the method's then/catch handlers do once the running request has settled
Continue ==
    CASE step = "negotiate" /\ backoff.state = "Success" /\ op = "putRecord" ->
            Send(putRecord_s3RequestOpts(mergedOpts, gzipPromise(payload))) /\ UNCHANGED <<outcome, cbCalls>>
      [] step = "negotiate" /\ backoff.state = "Success" /\ op = "getRecord" ->
            Send(getRecord_download) /\ UNCHANGED <<outcome, cbCalls>>
      [] step = "negotiate" /\ backoff.state # "Success" ->
            Finish(Rejected(backoff.error))
      [] step = "download" /\ backoff.state = "Success" ->
            Finish(Resolved(Data))
      [] step = "download" /\ backoff.state # "Success" ->
            Finish(catchNotFoundOrThrow(backoff.error))
      [] step \in {"direct", "upload"} /\ backoff.state = "Success" ->
            Finish(Resolved(Data))
      [] step \in {"direct", "upload"} /\ backoff.state # "Success" ->
            Finish(Rejected(backoff.error))
      [] step = "single" /\ backoff.state = "Success" ->
            Finish(Resolved(Unwrap(op, response)))
      [] step = "single" /\ backoff.state # "Success" ->
            Finish(IF Methods[op].catchNotFound
                   THEN catchNotFoundOrThrow(backoff.error)
                   ELSE Rejected(backoff.error))

Settle ==
    /\ pc = "request"
    /\ backoff.state \in TerminalStates
    /\ Continue
    /\ UNCHANGED <<instanceOpts, op, args, callOpts, mergedOpts, payload, optsAtStart, callback, calls, pure>>

\* the caller has its result; the next call may be issued
Return ==
    /\ pc = "done"
    /\ op' = "none"
    /\ args' = <<>>
    /\ callOpts' = <<>>
    /\ payload' = NoPayload
    /\ pc' = "idle"
    /\ reqLog' = <<>>
    /\ response' = NoResponse
    /\ outcome' = NoOutcome
    /\ mergedOpts' = MergedOpts(getDefaultOptions, <<>>)
    /\ optsAtStart' = getDefaultOptions
    /\ callback' = FALSE
    /\ cbCalls' = <<>>
    /\ UNCHANGED <<instanceOpts, step, backoff, calls, pure>>

\* setOptions(newOptions): every key of newOptions is written into instanceOpts
setOptions(newOptions) ==
    /\ instanceOpts' = Assign(instanceOpts, newOptions)
    /\ instanceOpts' # instanceOpts
    /\ UNCHANGED <<op, args, callOpts, mergedOpts, payload, pc, step, reqLog, backoff, response,
                   outcome, optsAtStart, callback, cbCalls, calls, pure>>

Next ==
    \/ (pc = "idle" /\ \E o \in Ops : \E a \in ArgChoices(o) : \E co \in CallOptionObjects :
          \E p \in PayloadChoices(o) :
             \E cb \in BOOLEAN : StartCall(o, a, co, p, cb))
    \/ GzipDone
    \/ (pc = "request" /\ \E r \in Responses(op) : Attempt(r))
    \/ BackoffElapsed
    \/ Settle
    \/ Return
    \/ \E newOptions \in SetOptionObjects : setOptions(newOptions)

Spec == Init /\ [][Next]_vars

\* requestPromise keeps attempting, the timers fire, promise handlers and the gzip callback run
FairSpec ==
    /\ Spec
    /\ WF_vars(pc = "request" /\ \E r \in Responses(op) : Attempt(r))
    /\ WF_vars(BackoffElapsed)
    /\ WF_vars(Settle)
    /\ WF_vars(GzipDone)

----------------------------------------------------------------------------
(* Identifiers in URLs and request bodies, as values *)

RECURSIVE SeqsUpTo(_, _)
\* the strings of at most n characters over the alphabet
SeqsUpTo(alphabet, n) ==
    IF n = 0 THEN { <<>> }
    ELSE LET shorter == SeqsUpTo(alphabet, n - 1)
         IN shorter \cup { Append(t, c) : t \in shorter, c \in alphabet }

\* identifiers such as username/resource-name
Identifiers == SeqsUpTo({"u", "/"}, MaxIdLen) \ { <<>> }

RECURSIVE replaceSlashWithTilde(_)
\* str.replace('/', '~'): a string pattern replaces its first occurrence only
replaceSlashWithTilde(str) ==
    IF str = <<>> THEN <<>>
    ELSE IF Head(str) = "/" THEN <<"~">> \o Tail(str)
    ELSE <<Head(str)>> \o replaceSlashWithTilde(Tail(str))

\* the methods whose URL ends in the identifier of a task, a request queue, a dataset, a store
IdMethods == {"getTask", "getQueue", "getDataset", "getStore"}

\* the path segment a method builds from the identifier: `${baseUrl}${BASE_PATH}/${...}`
PathSegment(o, id) ==
    IF o = "getTask" THEN replaceSlashWithTilde(id) ELSE id

ContentTypes == {CONTENT_TYPE_JSON, "application/json; charset=utf-8", "text/plain"}

\* bodies handed to putRecord: strings, a buffer, an object, a number
StringBodies == { [tag |-> "String", text |-> t] : t \in SeqsUpTo({"a", "\""}, MaxIdLen - 1) }
BufferBody == [tag |-> "Buffer", text |-> <<"a">>]
ObjectBody == [tag |-> "Object", text |-> <<"foo", "bar">>]
BodyValues == StringBodies \cup {BufferBody, ObjectBody}

RECURSIVE Escaped(_)
\* the characters of a string inside a JSON string literal
Escaped(t) ==
    IF t = <<>> THEN <<>>
    ELSE (IF Head(t) = "\"" THEN <<"\\", "\"">> ELSE <<Head(t)>>) \o Escaped(Tail(t))

\* JSON.stringify(body): always a string; a string is quoted, a Buffer becomes its toJSON() object
JSON_stringify(body) ==
    [tag |-> "String",
     text |-> CASE body.tag = "String" -> <<"\"">> \o Escaped(body.text) \o <<"\"">>
                [] body.tag = "Buffer" -> <<"{", "type", ":", "Buffer", ",", "data", ":">> \o body.text \o <<"}">>
                [] OTHER -> <<"{">> \o body.text \o <<"}">>]

\* encodeBody of key_value_stores.js: switch (contentType) { case CONTENT_TYPE_JSON: ...; default: ... }
encodeBodyValue(body, contentType) ==
    IF contentType = CONTENT_TYPE_JSON THEN JSON_stringify(body) ELSE body

\* body: useRawBody ? body : encodeBody(body, contentType)
putRecord_body(body, contentType, useRawBody) ==
    IF useRawBody THEN body ELSE encodeBodyValue(body, contentType)

\* a method builds the URL of the resource with identifier id
BuildPath(o, id) ==
    /\ pure = NoEval
    /\ pure' = [fn |-> o, in |-> id, out |-> PathSegment(o, id)]
    /\ UNCHANGED <<callVars, calls>>

\* putRecord builds the body of its request
BuildBody(body, contentType, useRawBody) ==
    /\ pure = NoEval
    /\ pure' = [fn |-> "putRecord",
                in |-> [body |-> body, contentType |-> contentType, useRawBody |-> useRawBody],
                out |-> putRecord_body(body, contentType, useRawBody)]
    /\ UNCHANGED <<callVars, calls>>

\* the values JSON text stands for here: strings and an object
JsonValues == StringBodies \cup {ObjectBody}

\* bodies a response may carry: the JSON text of a value, or text that is not JSON
ReceivedBodies ==
    { JSON_stringify(v) : v \in JsonValues }
        \cup { [tag |-> "String", text |-> t] : t \in { <<"a">>, <<"{">> } }

\* variant: the body is parsed whatever its content type
parseBody_AnyType(body, contentType) ==
    IF \E v \in JsonValues : JSON_stringify(v) = body
    THEN CHOOSE v \in JsonValues : JSON_stringify(v) = body
    ELSE IF contentType = CONTENT_TYPE_JSON THEN [tag |-> "SyntaxError", text |-> body.text] ELSE body

\* parseBody of key_value_stores.js: JSON.parse(body) for CONTENT_TYPE_JSON, which throws a
\* SyntaxError on text that is not JSON; the body itself otherwise
parseBody(body, contentType) ==
    IF contentType = CONTENT_TYPE_JSON
    THEN IF \E v \in JsonValues : JSON_stringify(v) = body
         THEN CHOOSE v \in JsonValues : JSON_stringify(v) = body
         ELSE [tag |-> "SyntaxError", text |-> body.text]
    ELSE body

\* if (!useRawBody) data.body = parseBody(data.body, data.contentType)
parseResponse_body(body, contentType, useRawBody) ==
    IF useRawBody THEN body ELSE parseBody(body, contentType)

\* the response handler of getRecord, or transformItem of listRecords, decodes a record body;
\* an exception thrown by it rejects the call with that exception
ParseResponse(o, body, contentType, useRawBody) ==
    /\ pure = NoEval
    /\ pure' = [fn |-> o,
                in |-> [body |-> body, contentType |-> contentType, useRawBody |-> useRawBody],
                out |-> parseResponse_body(body, contentType, useRawBody)]
    /\ UNCHANGED <<callVars, calls>>

\* ids of acts and tasks; the empty string stands for an id that is not given
EntityIds == {<<>>, <<"a">>, <<"b">>, <<"u", "/", "t">>}

\* the act or task objects tried: { foo: 'bar' } with or without an id
Entities == {[foo |-> <<"bar">>]} \cup { [id |-> i, foo |-> <<"bar">>] : i \in EntityIds }

\* _.omit(obj, key): a copy of obj without the key
omit(obj, key) == [k \in DOMAIN obj \ {key} |-> obj[k]]

\* const safeActId = !actId && act.id ? act.id : actId;
safeId(id, entity) ==
    IF id = <<>> /\ "id" \in DOMAIN entity /\ entity.id # <<>> THEN entity.id ELSE id

\* variant: the id is removed from the caller's object, which then is the body
update_requestOpts_DeletesId(o, id, entity) ==
    [segment |-> IF o = "updateTask" THEN replaceSlashWithTilde(safeId(id, entity)) ELSE safeId(id, entity),
     body |-> omit(entity, "id"),
     entity |-> omit(entity, "id")]

\* the PUT of updateAct / updateTask: the last segment of its url and its body, and the
\* caller's object once the request is built
update_requestOpts(o, id, entity) ==
    [segment |-> IF o = "updateTask" THEN replaceSlashWithTilde(safeId(id, entity)) ELSE safeId(id, entity),
     body |-> omit(entity, "id"),
     entity |-> entity]

\* updateAct / updateTask builds its request; the parameter checks have passed, so an id is given
BuildUpdate(o, id, entity) ==
    /\ pure = NoEval
    /\ safeId(id, entity) # <<>>
    /\ pure' = [fn |-> o, in |-> [id |-> id, entity |-> entity], out |-> update_requestOpts(o, id, entity)]
    /\ UNCHANGED <<callVars, calls>>

\* the shape a method declares for its options object: the type of each key
Shape(o) ==
    IF o = "list"
    THEN [unnamed |-> "Boolean", limit |-> "Number", offset |-> "Number", desc |-> "Boolean"]
    ELSE [clean |-> "Boolean", limit |-> "Number", unwind |-> "String"]

\* the options objects tried: declared keys and the undeclared key foo, each absent or of some type
ShapeOptions(o) ==
    UNION { [S -> {"Boolean", "Number", "String"}] : S \in SUBSET (DOMAIN Shape(o) \cup {"foo"}) }

\* variant: keys that are not declared are let through
exactShape_Partial(shape, options) ==
    \A k \in DOMAIN options \cap DOMAIN shape : options[k] = shape[k]

\* ow.object.exactShape({ key: ow.optional.<type>, ... }): no other key, each key of its type
exactShape(shape, options) ==
    \A k \in DOMAIN options : k \in DOMAIN shape /\ options[k] = shape[k]

\* list(options) / listItems(options): ow throws an ArgumentError, which rejects the async
\* method before its HTTP call, or the one list request is made
ValidateOptions(o, options) ==
    /\ pure = NoEval
    /\ pure' = [fn |-> o, in |-> options,
                out |-> IF exactShape(Shape(o), options)
                        THEN [error |-> "none", requests |-> 1]
                        ELSE [error |-> "ArgumentError", requests |-> 0]]
    /\ UNCHANGED <<callVars, calls>>

Bool(b) == [type |-> "boolean", n |-> IF b THEN 1 ELSE 0]

\* the paging options a method reads from its options object
DeclaredKeys(o) ==
    CASE o \in {"listDatasets", "listStores", "listQueues"} -> {"limit", "offset", "desc", "unnamed"}
      [] o \in {"listTasks", "listRuns", "listWebhooks", "getItems"} -> {"limit", "offset", "desc"}
      [] o \in {"listKeys", "getHead"} -> {"limit"}

\* the option objects tried: each paging option absent, or a number (0 included), or a boolean;
\* the limit of getHead is required
PagingOptions(o) ==
    LET vals(k) == IF k \in {"limit", "offset"} THEN {Num(0), Num(5)} ELSE {Bool(TRUE), Bool(FALSE)}
    IN { f \in UNION { [S -> {Num(0), Num(5), Bool(TRUE), Bool(FALSE)}] : S \in SUBSET DeclaredKeys(o) } :
            /\ \A k \in DOMAIN f : f[k] \in vals(k)
            /\ o = "getHead" => "limit" \in DOMAIN f }

\* the paging part of qs.  getItems: _.pick(options, ...), the values as they are;
\* the others: if (limit) query.limit = limit; ... if (desc) query.desc = 1;
Query(o, options) ==
    IF o = "getItems"
    THEN options
    ELSE [k \in { j \in DOMAIN options : options[j].n # 0 } |->
             IF k \in {"desc", "unnamed"} THEN Num(1) ELSE options[k]]

\* a list method builds its query from the options of the call
BuildQuery(o, options) ==
    /\ pure = NoEval
    /\ pure' = [fn |-> o, in |-> options, out |-> Query(o, options)]
    /\ UNCHANGED <<callVars, calls>>

\* the value has been used
Discard ==
    /\ pure # NoEval
    /\ pure' = NoEval
    /\ UNCHANGED <<callVars, calls>>

PureNext ==
    \/ \E o \in IdMethods : \E id \in Identifiers : BuildPath(o, id)
    \/ \E body \in BodyValues : \E contentType \in ContentTypes : \E useRawBody \in BOOLEAN :
          BuildBody(body, contentType, useRawBody)
    \/ \E o \in {"listDatasets", "listStores", "listQueues", "listTasks", "listRuns", "listWebhooks",
                  "getItems", "listKeys", "getHead"} :
          \E options \in PagingOptions(o) : BuildQuery(o, options)
    \/ \E o \in {"getRecord", "listRecords"} : \E body \in ReceivedBodies :
          \E contentType \in ContentTypes : \E useRawBody \in BOOLEAN :
             ParseResponse(o, body, contentType, useRawBody)
    \/ \E o \in {"updateAct", "updateTask"} : \E id \in EntityIds : \E entity \in Entities :
          BuildUpdate(o, id, entity)
    \/ \E o \in {"list", "listItems"} : \E options \in ShapeOptions(o) : ValidateOptions(o, options)
    \/ Discard

PureSpec == Init /\ [][PureNext]_vars

----------------------------------------------------------------------------
(* Two calls in flight on one client *)

\* requestPromise of call i is invoked: it gets a Backoff State of its own
CallStart(i, maxRepeats) ==
    /\ calls[i].b.state = "Idle"
    /\ calls' = [calls EXCEPT ![i] = [b |-> Dispatch(maxRepeats), maxRepeats |-> maxRepeats,
                                      hist |-> <<>>, delays |-> <<>>]]
    /\ UNCHANGED <<callVars, pure>>

\* an attempt of call i ends with status st; before a retry the call waits, the longer the more
\* attempts it has made
CallAttempt(i, st) ==
    /\ calls[i].b.state = "Attempting"
    /\ LET n == AttemptResult(OwnBackoff(calls, i), st) IN
       calls' = [calls EXCEPT ![i].b = n,
                              ![i].hist = Append(@, st),
                              ![i].delays = IF n.state = "Waiting" THEN Append(@, n.attempt) ELSE @]
    /\ UNCHANGED <<callVars, pure>>

\* the delay of call i elapses
CallBackoffElapsed(i) ==
    /\ calls[i].b.state = "Waiting"
    /\ calls' = [calls EXCEPT ![i].b = [OwnBackoff(calls, i) EXCEPT !.state = "Attempting", !.last = 0]]
    /\ UNCHANGED <<callVars, pure>>

\* call i has settled and its Backoff State is discarded
CallDone(i) ==
    /\ calls[i].b.state \in TerminalStates
    /\ calls' = [calls EXCEPT ![i] = IdleCall]
    /\ UNCHANGED <<callVars, pure>>

ConcNext ==
    \/ \E i \in Callers : \E maxRepeats \in ConcCeilings : CallStart(i, maxRepeats)
    \/ \E i \in Callers : \E st \in ConcStatuses : CallAttempt(i, st)
    \/ \E i \in Callers : CallBackoffElapsed(i)
    \/ \E i \in Callers : CallDone(i)

ConcSpec == Init /\ [][ConcNext]_vars

\* every attempt gets a response or a transport error, every backoff delay elapses
FairConcSpec ==
    /\ ConcSpec
    /\ \A i \in Callers : WF_vars(\E st \in ConcStatuses : CallAttempt(i, st))
    /\ \A i \in Callers : WF_vars(CallBackoffElapsed(i))

----------------------------------------------------------------------------
(* Properties *)

Last(log) == log[Len(log)]

Settled == pc = "done" /\ outcome.kind \in {"resolved", "rejected"}

\* C1: every list operation returns a pagination list whose count equals
\* items.length, whatever the count header of the response says.
C1_CountIsItemsLength ==
    (Settled /\ outcome.kind = "resolved" /\ outcome.value.tag = "list")
        => outcome.value.count = Num(Len(outcome.value.items))

\* C2: putRecord and putItems ask for a signed upload URL before any data is
\* sent when the payload is at least 256 KiB, and send the data directly,
\* with no negotiation request, when it is smaller.
C2_OffloadAtThreshold ==
    (op \in {"putRecord", "putItems"} /\ reqLog # <<>>)
        => IF payload.gzipLength >= SIGNED_URL_UPLOAD_MIN_BYTESIZE
           THEN reqLog[1].req.kind = "negotiate"
           ELSE \A i \in DOMAIN reqLog : reqLog[i].req.kind = "direct"

\* the requests of a putRecord call that goes through a signed URL: one
\* negotiation, then, only once it has succeeded, one upload to signedUrl;
\* the body never goes to the API host; no upload after a failed negotiation
SignedUrlUpload ==
    /\ Len(reqLog) <= 2
    /\ reqLog # <<>> => reqLog[1].req.kind = "negotiate"
    /\ Len(reqLog) = 2 => /\ reqLog[1].settled = "resolved"
                          /\ reqLog[2].req.kind = "upload"
                          /\ reqLog[2].req.target = "signedUrl"
                          /\ reqLog[2].req.body = gzipPromise(payload)
    /\ \A i \in DOMAIN reqLog : reqLog[i].req.target = "api" => reqLog[i].req.body = NoBody
    /\ (pc = "done" /\ outcome.kind = "resolved") => Len(reqLog) = 2

\* C3 (as stated): putRecord with a 300 KiB JSON body issues exactly one
\* negotiation request and then exactly one upload to the returned signedUrl,
\* never sending the body to the API host.
C3_Original ==
    (op = "putRecord" /\ pc \in {"request", "done"} /\ outcome.kind # "thrown"
        /\ payload.json /\ payload.length = 307200)
        => SignedUrlUpload

\* C3: putRecord whose gzipped body is at least 256 KiB issues exactly one
\* negotiation request and then, only after it has succeeded, exactly one
\* upload to the returned signedUrl; the body never goes to the API host and
\* a failed negotiation is followed by no upload.
C3_Theorem ==
    (op = "putRecord" /\ pc \in {"request", "done"} /\ outcome.kind # "thrown"
        /\ payload.gzipLength >= SIGNED_URL_UPLOAD_MIN_BYTESIZE)
        => SignedUrlUpload

C3_Witness ==
    /\ op = "putRecord" /\ pc = "done" /\ outcome.kind = "resolved"
    /\ payload.json /\ payload.length = 307200
    /\ payload.gzipLength >= SIGNED_URL_UPLOAD_MIN_BYTESIZE
    /\ Len(reqLog) = 2 /\ reqLog[2].req.kind = "upload"

Lookups == {"getStore", "getRecord", "getDataset", "getQueue", "getRequest", "getTask", "getAct",
            "getRun", "getBuild", "getCrawlerSettings", "getExecutionDetails"}

\* C4: a GET lookup of a single resource that fails with 404 resolves to null,
\* and one that fails with another status rejects with that error.
C4_LookupNotFoundIsNull ==
    (op \in Lookups /\ Settled /\ Last(reqLog).settled = "rejected")
        => IF Last(reqLog).status = NOT_FOUND_STATUS_CODE
           THEN outcome = Resolved(Null)
           ELSE outcome.kind = "rejected" /\ outcome.error.statusCode = Last(reqLog).status

Deletes == {"deleteStore", "deleteRecord", "deleteDataset", "deleteQueue", "deleteRequest",
            "deleteTask", "deleteAct", "deleteCrawler"}

\* C5: a DELETE call answered with 404 resolves to null/undefined instead of
\* raising an error.
C5_DeleteNotFoundIsNull ==
    (op \in Deletes /\ Settled)
        => ~(outcome.kind = "rejected" /\ outcome.error.statusCode = NOT_FOUND_STATUS_CODE)

\* the ceiling the retrier works with for request r
Ceiling(r) == IF r.maxRepeats > 0 THEN r.maxRepeats ELSE EXP_BACKOFF_MAX_REPEATS

\* an attempt of the running request ends in this step
AttemptEnds == pc = "request" /\ backoff.state = "Attempting" /\ backoff' # backoff

FinalSteps == {"single", "direct", "upload", "download"}

\* what the caller gets from a call whose last request succeeded
SuccessValue == IF IsListOp(op) THEN Unwrap(op, response) ELSE Data

C7_Theorem ==
    /\ [](backoff.state = "Exhausted"
            => /\ backoff.error = Err("RequestFailedError", "", Last(reqLog).status, Ceiling(Last(reqLog).req))
               /\ Retryable(Last(reqLog).status)
               /\ Last(reqLog).attempts = Ceiling(Last(reqLog).req))
    /\ [][(AttemptEnds /\ backoff.attempt + 1 >= Ceiling(Last(reqLog).req)
            /\ backoff'.last \in {429, 500, 502, 503, 504, ECONNRESET, ETIMEDOUT})
            => backoff'.state = "Exhausted"]_vars
    /\ [][backoff.state = "Exhausted"
            => /\ reqLog' = reqLog
               /\ backoff'.state \in {"Exhausted", "Idle"}
               /\ pc' = "done" => outcome' = Rejected(backoff.error)]_vars

C7_Witness ==
    /\ op = "addRequest" /\ pc = "done" /\ outcome.kind = "rejected"
    /\ outcome.error.type = "RequestFailedError"
    /\ outcome.error.attempts = REQUEST_ENDPOINTS_EXP_BACKOFF_MAX_REPEATS
    /\ Last(reqLog).attempts = REQUEST_ENDPOINTS_EXP_BACKOFF_MAX_REPEATS

\* C8: an attempt that fails with a 4xx status other than 429 puts the request
\* in Failed at once; from Failed nothing waits and nothing is attempted, and
\* the call settles with that one error (or with null where a 404 is caught).
C8_Theorem ==
    /\ [][(AttemptEnds /\ backoff'.last >= 400 /\ backoff'.last < 500
            /\ backoff'.last # RATE_LIMIT_EXCEEDED_STATUS_CODE)
            => /\ backoff'.state = "Failed"
               /\ backoff'.error.statusCode = backoff'.last
               /\ Last(reqLog').settled = "rejected"
               /\ Last(reqLog').attempts = backoff.attempt + 1]_vars
    /\ [][backoff.state = "Failed"
            => /\ reqLog' = reqLog
               /\ backoff'.state \in {"Failed", "Idle"}
               /\ pc' = "done" =>
                    \/ outcome' = Rejected(backoff.error)
                    \/ outcome' = Resolved(Null) /\ backoff.error.statusCode = NOT_FOUND_STATUS_CODE]_vars

C8_Witness ==
    /\ pc = "done" /\ outcome.kind = "rejected"
    /\ outcome.error.statusCode = 400 /\ outcome.error.attempts = 1
    /\ Len(reqLog) = 1 /\ Last(reqLog).attempts = 1

\* C9: a call with an absent or wrongly typed parameter throws synchronously a
\* MissingParameter or InvalidParameterType error naming the parameter, with no
\* request issued, for every combination of missing arguments.
C9_ThrowsNamedParameterError ==
    (pc = "done" /\ outcome.kind = "thrown")
        => /\ outcome.error.type \in {"MissingParameter", "InvalidParameterType"}
           /\ outcome.error.param \in DOMAIN Methods[op].nominal \cup {"baseUrl"}
           /\ reqLog = <<>>

\* C10: a call takes its options from the instance options in force when it
\* is issued, and every request it sends to the API host is built from those
\* options merged with the options of the call, whatever setOptions has done
\* since.
C10_Theorem ==
    /\ [](\A i \in DOMAIN reqLog :
            reqLog[i].req.target = "api" => reqLog[i].req.base = BaseUrl(Assign(optsAtStart, callOpts)))
    /\ [][(pc = "idle" /\ pc' # "idle")
            => /\ optsAtStart' = instanceOpts
               /\ mergedOpts' = MergedOpts(instanceOpts, callOpts')]_vars
    /\ [][(pc # "idle" /\ pc' # "idle") => (mergedOpts' = mergedOpts /\ optsAtStart' = optsAtStart)]_vars

C10_Witness ==
    /\ op = "putRecord" /\ pc = "request" /\ step = "negotiate" /\ backoff.state = "Waiting"
    /\ callOpts = <<>>
    /\ instanceOpts.host # optsAtStart.host
    /\ reqLog[1].req.base = BaseUrl(optsAtStart)

\* C11: a call without a callback never invokes one and settles as the promise
\* of the method does; with a callback, the callback is invoked exactly once
\* when that promise settles, with (null, result) if it resolved and with
\* (error) and no result if it rejected, and never with both.
C11_Theorem ==
    /\ Len(cbCalls) <= 1
    /\ ~callback => cbCalls = <<>>
    /\ (callback /\ ~Settled) => cbCalls = <<>>
    /\ (callback /\ Settled /\ outcome.kind = "resolved")
          => cbCalls = <<[error |-> NoError, result |-> outcome.value]>>
    /\ (callback /\ Settled /\ outcome.kind = "rejected")
          => (cbCalls = <<[error |-> outcome.error, result |-> Undefined]>> /\ outcome.error # NoError)
    /\ \A i \in DOMAIN cbCalls : cbCalls[i].error = NoError \/ cbCalls[i].result = Undefined

C11_Witness ==
    /\ callback /\ Settled /\ outcome.kind = "rejected"
    /\ cbCalls = <<[error |-> outcome.error, result |-> Undefined]>>
    /\ outcome.error.statusCode = 400

C13_Theorem ==
    (op = "runTask" /\ pc # "idle" /\ Truthy(args["body"]) /\ Truthy(args["input"]))
        => /\ pc = "done"
           /\ outcome.kind = "thrown"
           /\ reqLog = <<>>
           /\ backoff = IdleBackoff
           /\ cbCalls = <<>>
           /\ (args["token"] = "String" /\ args["taskId"] = "String" /\ TypeOf(args["input"]) = "Object")
                 => outcome = Thrown(ConflictError)

C13_Witness ==
    /\ op = "runTask" /\ pc = "done"
    /\ args["body"] = "String" /\ args["input"] = "Object" /\ args["token"] = "String"
    /\ outcome = Thrown(ConflictError)
    /\ reqLog = <<>>

QueueEndpoints == {"getOrCreateQueue", "listQueues", "getQueue", "deleteQueue"}
RequestEndpoints == {"addRequest", "getRequest", "deleteRequest", "updateRequest", "getHead"}

\* the request of the call in flight asks for the ceiling of 9 and the retrier works with it
HigherCeiling ==
    /\ \A i \in DOMAIN reqLog : reqLog[i].req.maxRepeats = REQUEST_ENDPOINTS_EXP_BACKOFF_MAX_REPEATS
    /\ backoff.max = REQUEST_ENDPOINTS_EXP_BACKOFF_MAX_REPEATS

\* no request of the call in flight sets a ceiling and the retrier works with its default
DefaultCeiling ==
    /\ \A i \in DOMAIN reqLog : reqLog[i].req.maxRepeats = 0
    /\ backoff.max = EXP_BACKOFF_MAX_REPEATS

\* C16 as stated: every method of request_queues.js, those on queues included,
\* is dispatched with the ceiling of 9 repeats, every other call with the default.
C16_Original ==
    pc = "request" =>
        IF op \in QueueEndpoints \cup RequestEndpoints THEN HigherCeiling ELSE DefaultCeiling

\* C16: addRequest, getRequest, deleteRequest, updateRequest and getHead are
\* dispatched with the ceiling of 9 repeats; getOrCreateQueue, listQueues,
\* getQueue, deleteQueue and the calls to every other resource set no ceiling
\* and run with the lower default.
C16_Theorem ==
    pc = "request" =>
        IF op \in RequestEndpoints THEN HigherCeiling ELSE DefaultCeiling

\* deleteRequest waits for its ninth attempt while any other call would have given up
C16_Witness ==
    /\ op = "deleteRequest" /\ pc = "request" /\ HigherCeiling
    /\ backoff.state = "Waiting" /\ backoff.attempt = EXP_BACKOFF_MAX_REPEATS

\* C17: on every authenticated call the token is passed as the query parameter
\* token of the request, never in a header (nor anywhere else in the request).
C17_TokenInQueryOnly ==
    \A i \in DOMAIN reqLog : reqLog[i].req.token \in {"qs", "none"}

RECURSIVE ReplaceEverySlash(_)
\* the identifier with every / replaced by ~
ReplaceEverySlash(str) ==
    IF str = <<>> THEN <<>>
    ELSE <<IF Head(str) = "/" THEN "~" ELSE Head(str)>> \o ReplaceEverySlash(Tail(str))

\* C18: the path segment built from an identifier of a task, a request queue,
\* a dataset or a key-value store is the identifier with every / replaced by ~,
\* so it never contains a /.
C18_EverySlashReplaced ==
    pure.fn \in IdMethods =>
        /\ pure.out = ReplaceEverySlash(pure.in)
        /\ \A i \in DOMAIN pure.out : pure.out[i] # "/"

\* C19: putRecord serializes its body as JSON when the content type is JSON and
\* the body is not a string already; a string or buffer body, a body with
\* another content type and a body with useRawBody set are sent as given.
C19_BodyAsGivenUnlessJsonValue ==
    pure.fn = "putRecord" =>
        pure.out = IF /\ pure.in.contentType = CONTENT_TYPE_JSON
                      /\ pure.in.body.tag \notin {"String", "Buffer"}
                      /\ ~pure.in.useRawBody
                   THEN JSON_stringify(pure.in.body)
                   ELSE pure.in.body

\* C20: every request with a gzip-compressed body (putItems; putRecord sent
\* directly or uploaded to the signed URL) carries Content-Encoding: gzip and
\* the Content-Type of the payload, and the upload to the signed URL carries
\* the two headers the direct upload would.
C20_Theorem ==
    \A i \in DOMAIN reqLog :
        LET r == reqLog[i].req IN
        /\ r.body.encoding = "gzip" =>
              /\ op \in {"putItems", "putRecord"}
              /\ r.headers =
                    {<<"Content-Encoding", "gzip">>,
                     <<"Content-Type", CASE op = "putItems" -> "application/json; charset=utf-8"
                                         [] payload.json -> "application/json"
                                         [] OTHER -> "text/plain">>}
        /\ r.kind = "upload" =>
              /\ r.body.encoding = "gzip"
              /\ r.headers = putRecord_requestOpts(mergedOpts, gzipPromise(payload)).headers

\* a text record too large to be sent directly is being uploaded to the signed URL
C20_Witness ==
    /\ op = "putRecord" /\ pc = "request" /\ step = "upload" /\ ~payload.json
    /\ Last(reqLog).req.target = "signedUrl"
    /\ Last(reqLog).req.body = [encoding |-> "gzip", length |-> SIGNED_URL_UPLOAD_MIN_BYTESIZE]
    /\ Last(reqLog).req.headers = {<<"Content-Type", "text/plain">>, <<"Content-Encoding", "gzip">>}

\* C21: every dispatched call terminates.  The attempts of a call never exceed
\* its ceiling and a call that is attempting or waiting is below it; a call in
\* Success, Failed or Exhausted makes no further step but the discarding of its
\* state; and, every attempt being answered and every delay elapsing, a
\* dispatched call reaches Success, Failed or Exhausted.
C21_Theorem ==
    /\ [](\A i \in Callers :
            calls[i].b.state # "Idle" =>
                /\ calls[i].b.max = Ceiling(calls[i])
                /\ calls[i].b.attempt <= calls[i].b.max
                /\ calls[i].b.state \in {"Attempting", "Waiting"} => calls[i].b.attempt < calls[i].b.max
                /\ Len(calls[i].delays) < calls[i].b.max)
    /\ [][\A i \in Callers :
            calls[i].b.state \in TerminalStates => calls'[i] \in {calls[i], IdleCall}]_vars
    /\ \A i \in Callers :
            (calls[i].b.state = "Attempting") ~> (calls[i].b.state \in TerminalStates)

\* one call gave up after the default 8 attempts, the other failed at its third
C21_Witness ==
    /\ calls[1].b.state = "Exhausted" /\ calls[1].b.attempt = EXP_BACKOFF_MAX_REPEATS
    /\ calls[2].b.state = "Failed" /\ calls[2].b.attempt = 3 /\ calls[2].hist = <<503, 503, 400>>

\* C22: on a pagination call an option the caller omitted makes no key of the
\* query string, and desc or unnamed given as true is sent as the value 1.
C22_OmittedAbsentTrueIsOne ==
    pure.fn \in {"listDatasets", "listStores", "listQueues", "listTasks", "listRuns", "listWebhooks",
                 "getItems"} =>
        /\ \A k \in DOMAIN pure.out : k \in DOMAIN pure.in
        /\ \A k \in {"desc", "unnamed"} \cap DOMAIN pure.in :
              pure.in[k] = Bool(TRUE) => (k \in DOMAIN pure.out /\ pure.out[k] = Num(1))

\* C30: on list and head calls every limit or offset the caller supplies is in
\* the query string with the supplied value, 0 included.
C30_LimitOffsetForwarded ==
    pure.fn \in {"listQueues", "listDatasets", "listStores", "listTasks", "listKeys", "getHead"} =>
        \A k \in {"limit", "offset"} \cap DOMAIN pure.in :
            k \in DOMAIN pure.out /\ pure.out[k] = pure.in[k]

C25_InvalidResponseError ==
    (/\ pure.fn \in {"getRecord", "listRecords"}
     /\ pure.in.contentType = "application/json" /\ ~pure.in.useRawBody
     /\ ~ \E v \in JsonValues : JSON_stringify(v) = pure.in.body)
        => pure.out.tag = "InvalidResponseError"

\* C24: updateAct and updateTask send their PUT to the id passed as parameter
\* when there is one (for a task, with its first / written ~) and to the id in
\* the entity otherwise; the body is the entity without its id field, and the
\* caller's entity object is as it was.
C24_Theorem ==
    pure.fn \in {"updateAct", "updateTask"} =>
        LET chosen == IF pure.in.id # <<>> THEN pure.in.id ELSE pure.in.entity.id IN
        /\ pure.out.segment = IF pure.fn = "updateTask" /\ chosen = <<"u", "/", "t">>
                              THEN <<"u", "~", "t">> ELSE chosen
        /\ DOMAIN pure.out.body = DOMAIN pure.in.entity \ {"id"}
        /\ \A k \in DOMAIN pure.out.body : pure.out.body[k] = pure.in.entity[k]
        /\ pure.out.entity = pure.in.entity

\* both ids are given and differ: the parameter wins and the entity keeps its id
C24_Witness ==
    /\ pure.fn = "updateAct" /\ pure.in.id = <<"a">> /\ pure.in.entity = [id |-> <<"b">>, foo |-> <<"bar">>]
    /\ pure.out.segment = <<"a">> /\ pure.out.body = [foo |-> <<"bar">>]
    /\ pure.out.entity = [id |-> <<"b">>, foo |-> <<"bar">>]

C28_MissingRecordIsNull ==
    (/\ op = "getRecord" /\ Settled /\ reqLog # <<>>
     /\ Last(reqLog).req.kind \in {"single", "negotiate", "download"}
     /\ Last(reqLog).settled = "rejected" /\ Last(reqLog).status = NOT_FOUND_STATUS_CODE)
        => outcome = Resolved(Null)

====
